---- MODULE Spec2Model ----
(***************************************************************************)
(* A model of libchai's optimisation constraints (src/src/constraints.rs): *)
(* Constraints::new, which compiles the configuration's rules into the     *)
(* sets `fixed` and `narrowed`, and the three constrained mutation         *)
(* operators on a KeyMap.                                                  *)
(*                                                                         *)
(* Rust's Option<T> is modelled as a sequence: <<>> is None, <<x>> is      *)
(* Some(x).  A Vec is a sequence; a KeyMap (indexed from 0) is a function  *)
(* on 0 .. elements-1; a HashMap is a function on its key set; a HashSet   *)
(* is a set.  assemble(element, index) is the pair <<element, index>>.     *)
(***************************************************************************)
EXTENDS Integers, Sequences, FiniteSets, TLC

VARIABLES
    rep,      \* the Representation handed to Constraints::new
    result,   \* what Constraints::new returned for rep (NotCalled before the call)
    cons,     \* the Constraints value the mutation operators are called on
    map,      \* the current KeyMap
    prev,     \* the KeyMap the last operator was called with
    last      \* the last operator call: its name, its random draws, its outcome

vars == <<rep, result, cons, map, prev, last>>

----------------------------------------------------------------------------
(* Bounds and input domains                                                *)

\* Most rules over the three rule lists of one configuration.
MaxRules == 2

NoneV == <<>>
Some(x) == <<x>>
IsSome(o) == o # <<>>
Unwrap(o) == o[1]

\* Characters the key lookup knows, and one it does not.
Chars == {"q", "w", "e"}
UnknownChar == "z"

\* representation.key_repr: character -> Key
KeyRepr == [c \in Chars |-> CASE c = "q" -> 1 [] c = "w" -> 2 [] c = "e" -> 3]

Keys == {KeyRepr[c] : c \in Chars}

\* config.form.alphabet: the empty string, a string that leaves one known
\* character out, and the string of all known characters.
AlphabetStrings == {<<>>, <<"q", "w">>, <<"q", "w", "e">>}

\* Three schemes.  In Scheme1 element "a" has two literal slots and "b" a
\* literal slot followed by a reference; in Scheme2 "a" is a reference only.
\* element_repr holds exactly the literal slots; initial holds one Key per
\* entry of element_repr.  "c" is in no mapping.
Scheme1 ==
    [mapping |-> [n \in {"a", "b"} |->
                    IF n = "a" THEN <<"Ascii", "Ascii">>
                               ELSE <<"Ascii", "Reference">>],
     element_repr |-> [p \in {<<"a", 0>>, <<"a", 1>>, <<"b", 0>>} |->
                    IF p = <<"a", 0>> THEN 0
                    ELSE IF p = <<"a", 1>> THEN 1 ELSE 2],
     initial_len |-> 3]

Scheme2 ==
    [mapping |-> [n \in {"a", "b"} |->
                    IF n = "a" THEN <<"Reference">> ELSE <<"Ascii">>],
     element_repr |-> [p \in {<<"b", 0>>} |-> 0],
     initial_len |-> 1]

\* A scheme without any element.
Scheme0 ==
    [mapping |-> <<>>, element_repr |-> <<>>, initial_len |-> 0]

Schemes == {Scheme0, Scheme1, Scheme2}

\* The rules a configuration may hold.  An AtomicConstraint has three
\* optional fields.  The list `elements` holds rules that name an element,
\* `indices` rules that name an index, `element_indices` rules that name
\* both; a rule that names neither may stand in any of the three.
RuleKeys == {NoneV, Some(<<>>), Some(<<"q">>), Some(<<"e", "w">>),
             Some(<<UnknownChar>>)}

ByElementRules == [element : {Some("a"), Some("c")}, index : {NoneV}, keys : RuleKeys]
ByIndexRules == [element : {NoneV}, index : {Some(0), Some(1)}, keys : RuleKeys]
ByElementIndexRules == [element : {Some("a")}, index : {Some(0), Some(1)}, keys : RuleKeys]
NeitherRules == [element : {NoneV}, index : {NoneV}, keys : {NoneV, Some(<<>>)}]

\* How many rules each of the three lists holds: at most MaxRules in all.
RuleCounts ==
    {n \in (0 .. MaxRules) \X (0 .. MaxRules) \X (0 .. MaxRules) :
        n[1] + n[2] + n[3] <= MaxRules}

\* The three rule lists of optimization.constraints (a missing list or a
\* missing constraints section is the empty list: unwrap_or_default).
RuleLists ==
    UNION {{[elements |-> a, indices |-> b, element_indices |-> c] :
                a \in [1 .. n[1] -> ByElementRules \cup NeitherRules],
                b \in [1 .. n[2] -> ByIndexRules \cup NeitherRules],
                c \in [1 .. n[3] -> ByElementIndexRules \cup NeitherRules]} :
           n \in RuleCounts}

\* The Representations Constraints::new is called with.
Representations ==
    {[alphabet |-> a,
      key_repr |-> KeyRepr,
      element_repr |-> sch.element_repr,
      initial_len |-> sch.initial_len,
      mapping |-> sch.mapping,
      constraints |-> l] :
        a \in AlphabetStrings, sch \in Schemes, l \in RuleLists}

----------------------------------------------------------------------------
(* Constraints::new                                                        *)

Ok(v) == [status |-> "ok", value |-> v]
Err(e) == [status |-> "err", err |-> e]
NotCalled == [status |-> "none"]

\* HashMap::insert
Insert(m, k, v) == [x \in DOMAIN m \cup {k} |-> IF x = k THEN v ELSE m[x]]

\* the closure `lookup`: element_repr.get(&x).ok_or(..)
lookup(r, x) ==
    IF x \in DOMAIN r.element_repr THEN Ok(r.element_repr[x])
    ELSE Err("UnknownElement")

\* alphabet.chars().map(|x| *key_repr.get(&x).unwrap()).collect()
Alphabet(r) == [i \in 1 .. Len(r.alphabet) |-> r.key_repr[r.alphabet[i]]]

\* Mutant of Values: the three lists appended in the opposite order.
ValuesReversed(r) ==
    r.constraints.element_indices \o r.constraints.indices \o r.constraints.elements

\* values: the three lists appended in this order
Values(r) ==
    r.constraints.elements \o r.constraints.indices \o r.constraints.element_indices

\* normalized.get(index): the slot at a 0-based position, if any
SlotAt(code, index) == IF index < Len(code) THEN Some(code[index + 1]) ELSE NoneV

\* (None, Some(index)): every mapping entry whose slot at index is literal.
\* The HashMap is walked in an unspecified order; `todo` is what is left of it.
RECURSIVE ByIndex(_, _, _, _)
ByIndex(r, index, todo, acc) ==
    IF todo = {} THEN Ok(acc)
    ELSE LET key == CHOOSE k \in todo : TRUE
         IN  IF SlotAt(r.mapping[key], index) = Some("Ascii")
             THEN LET e == lookup(r, <<key, index>>)
                  IN  IF e.status = "err" THEN e
                      ELSE ByIndex(r, index, todo \ {key}, Append(acc, e.value))
             ELSE ByIndex(r, index, todo \ {key}, acc)

\* (Some(element), None): every literal slot of the element's own code
RECURSIVE ByElement(_, _, _, _, _)
ByElement(r, element, mapped, i, acc) ==
    IF i >= Len(mapped) THEN Ok(acc)
    ELSE IF mapped[i + 1] = "Ascii"
         THEN LET e == lookup(r, <<element, i>>)
              IN  IF e.status = "err" THEN e
                  ELSE ByElement(r, element, mapped, i + 1, Append(acc, e.value))
         ELSE ByElement(r, element, mapped, i + 1, acc)

\* match (element, index): the Elements a rule resolves to
ResolveElements(r, rule) ==
    IF IsSome(rule.element) /\ IsSome(rule.index)
    THEN LET e == lookup(r, <<Unwrap(rule.element), Unwrap(rule.index)>>)
         IN  IF e.status = "err" THEN e ELSE Ok(<<e.value>>)
    ELSE IF IsSome(rule.index)
    THEN ByIndex(r, Unwrap(rule.index), DOMAIN r.mapping, <<>>)
    ELSE IF IsSome(rule.element)
    THEN IF Unwrap(rule.element) \in DOMAIN r.mapping
         THEN ByElement(r, Unwrap(rule.element), r.mapping[Unwrap(rule.element)], 0, <<>>)
         ELSE Err("UnknownMapping")
    ELSE Err("NoElementOrIndex")

\* for key in keys { transformed.push(*key_repr.get(key).ok_or(..)?) }
RECURSIVE Transform(_, _, _)
Transform(r, keys, acc) ==
    IF keys = <<>> THEN Ok(acc)
    ELSE IF Head(keys) \in DOMAIN r.key_repr
         THEN Transform(r, Tail(keys), Append(acc, r.key_repr[Head(keys)]))
         ELSE Err("UnknownKey")

\* for element in elements { .. }: the key list is resolved and checked once
\* per resolved Element, inside the loop
RECURSIVE ApplyRule(_, _, _, _, _)
ApplyRule(r, elems, keys, fixed, narrowed) ==
    IF elems = <<>> THEN Ok([fixed |-> fixed, narrowed |-> narrowed])
    ELSE IF IsSome(keys)
         THEN LET transformed == Transform(r, Unwrap(keys), <<>>)
              IN  IF transformed.status = "err" THEN transformed
                  ELSE IF Len(transformed.value) = 0 THEN Err("EmptyKeys")
                  ELSE ApplyRule(r, Tail(elems), keys, fixed,
                                 Insert(narrowed, Head(elems), transformed.value))
         ELSE ApplyRule(r, Tail(elems), keys, fixed \cup {Head(elems)}, narrowed)

\* for atomic_constraint in &values { .. }
RECURSIVE Compile(_, _, _, _)
Compile(r, values, fixed, narrowed) ==
    IF values = <<>> THEN Ok([fixed |-> fixed, narrowed |-> narrowed])
    ELSE LET elems == ResolveElements(r, Head(values))
         IN  IF elems.status = "err" THEN elems
             ELSE LET done == ApplyRule(r, elems.value, Head(values).keys, fixed, narrowed)
                  IN  IF done.status = "err" THEN done
                      ELSE Compile(r, Tail(values), done.value.fixed, done.value.narrowed)

\* Constraints::new
New(r) ==
    LET done == Compile(r, Values(r), {}, <<>>)
    IN  IF done.status = "err" THEN done
        ELSE Ok([alphabet |-> Alphabet(r),
                 elements |-> r.initial_len,
                 fixed |-> done.value.fixed,
                 narrowed |-> done.value.narrowed])

----------------------------------------------------------------------------
(* Specification of the compiler: one call of Constraints::new             *)

NoCons == [alphabet |-> <<>>, elements |-> 0, fixed |-> {}, narrowed |-> <<>>]
NoCall == [op |-> "none", e1 |-> 0, e2 |-> 0, key |-> 0, outcome |-> "none"]

\* The usual Representations (some Element, some letter in the alphabet),
\* then the degenerate ones.
InitNew ==
    /\ \/ rep \in {r \in Representations : r.initial_len > 0 /\ Len(r.alphabet) > 0}
       \/ rep \in {r \in Representations : r.initial_len = 0 \/ Len(r.alphabet) = 0}
    /\ result = NotCalled
    /\ cons = NoCons
    /\ map = <<>>
    /\ prev = <<>>
    /\ last = NoCall

CallNew ==
    /\ result.status = "none"
    /\ result' = New(rep)
    /\ UNCHANGED <<rep, cons, map, prev, last>>

NextNew == CallNew

SpecNew == InitNew /\ [][NextNew]_vars

----------------------------------------------------------------------------
(* The mutation operators                                                  *)

Elements(c) == 0 .. c.elements - 1

\* slice::contains
Contains(s, k) == \E i \in 1 .. Len(s) : s[i] = k

\* self.narrowed.get(&element).unwrap_or(&self.alphabet)
Destinations(c, element) ==
    IF element \in DOMAIN c.narrowed THEN c.narrowed[element] ELSE c.alphabet

\* Mutant of Movable: the draw does not look at `fixed`.
MovableAny(c) == Elements(c)

\* get_movable_element, get_swappable_element: the values the rejection loop
\* can return, every draw from 0..elements that is not in `fixed`
Movable(c) == {key \in Elements(c) : key \notin c.fixed}

\* Mutant of swap_narrowed_elements: the swap is made only when both sides
\* are feasible.
swap_reciprocal_only(c, m, element1, element2) ==
    IF /\ Contains(Destinations(c, element1), m[element2])
       /\ Contains(Destinations(c, element2), m[element1])
    THEN [m EXCEPT ![element1] = m[element2], ![element2] = m[element1]]
    ELSE m

\* Mutant of swap_narrowed_elements: the second side is decided against the
\* KeyMap the first side has already changed.
swap_sequential(c, m, element1, element2) ==
    LET next1 == IF Contains(Destinations(c, element1), m[element2])
                 THEN [m EXCEPT ![element1] = m[element2]] ELSE m
    IN  IF Contains(Destinations(c, element2), next1[element1])
        THEN [next1 EXCEPT ![element2] = next1[element1]] ELSE next1

\* swap_narrowed_elements
swap_narrowed_elements(c, m, element1, element2) ==
    LET destinations1 == Destinations(c, element1)
        destinations2 == Destinations(c, element2)
        next1 == IF Contains(destinations1, m[element2])
                 THEN [m EXCEPT ![element1] = m[element2]] ELSE m
    IN  IF Contains(destinations2, m[element1])
        THEN [next1 EXCEPT ![element2] = m[element1]] ELSE next1

\* the loop of constrained_full_key_swap over map.iter().enumerate()
RECURSIVE full_key_swap_from(_, _, _, _, _, _)
full_key_swap_from(c, m, key1, key2, element, next) ==
    IF element >= c.elements THEN next
    ELSE LET key == m[element]
             destination == IF key = key2 THEN key1 ELSE key2
         IN  IF (key = key1 \/ key = key2) /\ element \notin c.fixed
                /\ Contains(Destinations(c, element), destination)
             THEN full_key_swap_from(c, m, key1, key2, element + 1,
                                     [next EXCEPT ![element] = destination])
             ELSE full_key_swap_from(c, m, key1, key2, element + 1, next)

\* Mutant of full_key_swap: the members of the group are relocated without
\* looking at their own destinations.
full_key_swap_unchecked(c, m, movable_element, key2) ==
    [element \in Elements(c) |->
        IF element \in c.fixed THEN m[element]
        ELSE IF m[element] = key2 THEN m[movable_element]
        ELSE IF m[element] = m[movable_element] THEN key2
        ELSE m[element]]

\* Mutant of full_key_swap: only the Elements on key1 are relocated.
full_key_swap_one_way(c, m, movable_element, key2) ==
    [element \in Elements(c) |->
        IF /\ element \notin c.fixed
           /\ m[element] = m[movable_element]
           /\ Contains(Destinations(c, element), key2)
        THEN key2 ELSE m[element]]

\* constrained_full_key_swap, given its two random draws
full_key_swap(c, m, movable_element, key2) ==
    full_key_swap_from(c, m, m[movable_element], key2, 0, m)

\* constrained_random_move, given its two random draws
random_move(c, m, movable_element, key) == [m EXCEPT ![movable_element] = key]

Call(op, e1, e2, key, outcome) ==
    [op |-> op, e1 |-> e1, e2 |-> e2, key |-> key, outcome |-> outcome]

\* A panic ends the process: no operator is called after one.
Running == last.outcome # "panic"

\* The range of rng.gen_range(0..self.elements) is empty: the draw panics.
EmptyRange(op) ==
    /\ cons.elements = 0
    /\ last' = Call(op, 0, 0, 0, "panic")
    /\ UNCHANGED <<map, prev>>

constrained_random_move ==
    /\ Running
    /\ \/ EmptyRange("move")
       \/ \E movable_element \in Movable(cons) :
            LET destinations == Destinations(cons, movable_element)
            IN  IF Len(destinations) = 0
                THEN \* destinations.choose(..) is None: unwrap panics
                     /\ last' = Call("move", movable_element, 0, 0, "panic")
                     /\ UNCHANGED <<map, prev>>
                ELSE \E i \in 1 .. Len(destinations) :
                     /\ map' = random_move(cons, map, movable_element, destinations[i])
                     /\ prev' = map
                     /\ last' = Call("move", movable_element, 0, destinations[i], "ok")
    /\ UNCHANGED <<rep, result, cons>>

constrained_random_swap ==
    /\ Running
    /\ \/ EmptyRange("swap")
       \/ \E element1 \in Movable(cons), element2 \in Movable(cons) :
            /\ map' = swap_narrowed_elements(cons, map, element1, element2)
            /\ prev' = map
            /\ last' = Call("swap", element1, element2, 0, "ok")
    /\ UNCHANGED <<rep, result, cons>>

constrained_full_key_swap ==
    /\ Running
    /\ \/ EmptyRange("full")
       \/ \E movable_element \in Movable(cons) :
            LET destinations == Destinations(cons, movable_element)
            IN  IF Len(destinations) = 0
                THEN \* destinations.choose(..) is None: unwrap panics
                     /\ last' = Call("full", movable_element, 0, 0, "panic")
                     /\ UNCHANGED <<map, prev>>
                ELSE \E i \in 1 .. Len(destinations) :
                     /\ map' = full_key_swap(cons, map, movable_element, destinations[i])
                     /\ prev' = map
                     /\ last' = Call("full", movable_element, 0, destinations[i], "ok")
    /\ UNCHANGED <<rep, result, cons>>

\* Every Constraints value Constraints::new returns for some Representation.
Compiled == {New(r).value : r \in {x \in Representations : New(x).status = "ok"}}

NoRep == [alphabet |-> <<>>]

\* Constraints::new has returned cons (with a non-empty alphabet, or with an
\* empty one); map is any KeyMap of its length.
InitMutate ==
    /\ rep = NoRep
    /\ result = NotCalled
    /\ \/ cons \in {c \in Compiled : Len(c.alphabet) > 0}
       \/ cons \in {c \in Compiled : Len(c.alphabet) = 0}
    /\ map \in [Elements(cons) -> Keys]
    /\ prev = map
    /\ last = NoCall

NextMutate ==
    \/ constrained_random_move
    \/ constrained_random_swap
    \/ constrained_full_key_swap

SpecMutate == InitMutate /\ [][NextMutate]_vars

----------------------------------------------------------------------------
(* The rejection loop of get_movable_element / get_swappable_element, one  *)
(* draw per step.  last.e1 is the last key drawn; last.outcome is "start"  *)
(* before the first draw, "rejected" after a draw that fell in `fixed`,    *)
(* "returned" once the loop has returned last.e1.                          *)

InLoop == last.op = "draw" /\ last.outcome \in {"start", "rejected"}

\* rng.gen_range(0..self.elements) on an empty range panics
DrawPanics ==
    /\ InLoop
    /\ cons.elements = 0
    /\ last' = Call("draw", 0, 0, 0, "panic")
    /\ UNCHANGED <<rep, result, cons, map, prev>>

\* the draw is in `fixed`: loop again
DrawRejected ==
    /\ InLoop
    /\ \E key \in Elements(cons) :
        /\ key \in cons.fixed
        /\ last' = Call("draw", key, 0, 0, "rejected")
    /\ UNCHANGED <<rep, result, cons, map, prev>>

\* Mutant of DrawReturns: the loop returns its first draw.
DrawReturnsAny ==
    /\ InLoop
    /\ \E key \in Elements(cons) : last' = Call("draw", key, 0, 0, "returned")
    /\ UNCHANGED <<rep, result, cons, map, prev>>

\* the draw is not in `fixed`: return key
DrawReturns ==
    /\ InLoop
    /\ \E key \in Elements(cons) :
        /\ key \notin cons.fixed
        /\ last' = Call("draw", key, 0, 0, "returned")
    /\ UNCHANGED <<rep, result, cons, map, prev>>

InitDraw ==
    /\ rep = NoRep
    /\ result = NotCalled
    /\ cons \in Compiled
    /\ map = <<>>
    /\ prev = <<>>
    /\ last = Call("draw", 0, 0, 0, "start")

NextDraw == DrawPanics \/ DrawRejected \/ DrawReturns

\* Every draw is uniform over 0..elements, so a loop that can return (some
\* key is not in `fixed`) returns with probability 1: weak fairness of the
\* returning draw, which stays enabled for as long as the loop runs.
SpecDraw == InitDraw /\ [][NextDraw]_vars /\ WF_vars(DrawReturns)

----------------------------------------------------------------------------
(* Properties                                                              *)

\* The last step was a call of operator op that returned a KeyMap.
Acted(op) == last.op = op /\ last.outcome = "ok"

\* C1 (SpecMutate): no call of constrained_random_move, constrained_random_swap
\* or constrained_full_key_swap changes the Key of an Element in `fixed`,
\* whether or not the Element is also in `narrowed`; every KeyMap is an initial
\* one, so after any sequence of calls a fixed Element is on its initial Key.
C1_FixedKeysNeverChange ==
    [][\A e \in cons.fixed \cap Elements(cons) : map'[e] = map[e]]_vars

\* C1 witness: a full key swap has run while an Element that is both fixed
\* and narrowed sat on the drawn Element's Key, with the destination Key in
\* its narrowed list.
C1_Witness ==
    /\ Acted("full")
    /\ map # prev
    /\ \E e \in cons.fixed \cap DOMAIN cons.narrowed :
        /\ prev[e] = prev[last.e1]
        /\ last.key # prev[e]
        /\ Contains(cons.narrowed[e], last.key)

NarrowedRespected(m) ==
    \A e \in DOMAIN cons.narrowed : Contains(cons.narrowed[e], m[e])

\* C2 (SpecMutate): no operator call changes the Key of an Element with a
\* `narrowed` entry to a Key outside that entry; so a KeyMap in which every
\* narrowed Element sits on a Key of its list is followed by such a KeyMap.
C2_NarrowedKeysRespected ==
    [][/\ \A e \in DOMAIN cons.narrowed :
            map'[e] # map[e] => Contains(cons.narrowed[e], map'[e])
       /\ NarrowedRespected(map) => NarrowedRespected(map')]_vars

\* C2 witness: a full key swap has relocated a narrowed Element other than
\* the drawn one.
C2_Witness ==
    /\ Acted("full")
    /\ \E e \in DOMAIN cons.narrowed : e # last.e1 /\ map[e] # prev[e]

Feasible(this, other) == Contains(Destinations(cons, this), prev[other])

C4_EmptyKeysRejected ==
    (/\ result.status # "none"
     /\ \E i \in 1 .. Len(Values(rep)) : Values(rep)[i].keys = Some(<<>>))
        => result.status = "err"

\* A rule names something the lookups do not know.
RefersToUnknown(r, rule) ==
    \/ /\ IsSome(rule.element) /\ IsSome(rule.index)
       /\ <<Unwrap(rule.element), Unwrap(rule.index)>> \notin DOMAIN r.element_repr
    \/ /\ IsSome(rule.element) /\ ~IsSome(rule.index)
       /\ Unwrap(rule.element) \notin DOMAIN r.mapping
    \/ /\ IsSome(rule.keys)
       /\ \E j \in 1 .. Len(Unwrap(rule.keys)) :
            Unwrap(rule.keys)[j] \notin DOMAIN r.key_repr

\* C5 as claimed (SpecNew): Constraints::new fails for every configuration
\* that holds a rule naming an unknown (element, index) pair, an unknown
\* element or an unknown key.
C5_UnknownNamesRejected ==
    (/\ result.status # "none"
     /\ \E i \in 1 .. Len(Values(rep)) : RefersToUnknown(rep, Values(rep)[i]))
        => result.status = "err"

\* C6 as claimed (SpecMutate): on a Constraints value returned by
\* Constraints::new with an Element that is not fixed, no operator call panics.
C6_OperatorsNeverPanic ==
    Movable(cons) # {} => last.outcome # "panic"

\* C7 (SpecDraw): the draw never returns when no Element is outside `fixed`,
\* and under fair draws it returns an Element outside `fixed` when there is one.
C7_DrawReturnsIffMovable ==
    /\ [](Movable(cons) = {} => last.outcome # "returned")
    /\ (InLoop /\ Movable(cons) # {})
           ~> (last.outcome = "returned" /\ last.e1 \in Movable(cons))

\* C7 witness: Constraints::new has returned a value that fixes every one of
\* its Elements, and the draw has been rejected.
C7_Witness ==
    /\ cons.elements > 0
    /\ cons.fixed = Elements(cons)
    /\ last.op = "draw"
    /\ last.outcome = "rejected"

\* What the claim says one side of a pairwise swap ends on.
SwapSide(this, other) == IF Feasible(this, other) THEN prev[other] ELSE prev[this]

\* C8 as claimed (SpecMutate): each side of the pairwise swap is decided
\* against the pre-swap KeyMap; an unconstrained e1 moves onto the Key of an
\* e2 narrowed to a list without e1's Key, while e2 stays; e1 = e2 changes
\* nothing.
C8_SwapSidesIndependent ==
    Acted("swap") =>
        /\ map = [e \in Elements(cons) |->
                    IF e = last.e1 THEN SwapSide(last.e1, last.e2)
                    ELSE IF e = last.e2 THEN SwapSide(last.e2, last.e1)
                    ELSE prev[e]]
        /\ (/\ last.e1 \notin DOMAIN cons.narrowed
            /\ last.e2 \in DOMAIN cons.narrowed
            /\ ~Contains(cons.narrowed[last.e2], prev[last.e1]))
               => (map[last.e1] = prev[last.e2] /\ map[last.e2] = prev[last.e2])
        /\ last.e1 = last.e2 => map = prev

\* C8 amended (SpecMutate): as C8, the unconstrained e1 moving onto e2's Key
\* when that Key is in the alphabet.
C8_SwapSidesIndependentInAlphabet ==
    Acted("swap") =>
        /\ map = [e \in Elements(cons) |->
                    IF e = last.e1 THEN SwapSide(last.e1, last.e2)
                    ELSE IF e = last.e2 THEN SwapSide(last.e2, last.e1)
                    ELSE prev[e]]
        /\ (/\ last.e1 \notin DOMAIN cons.narrowed
            /\ Contains(cons.alphabet, prev[last.e2])
            /\ last.e2 \in DOMAIN cons.narrowed
            /\ ~Contains(cons.narrowed[last.e2], prev[last.e1]))
               => (map[last.e1] = prev[last.e2] /\ map[last.e2] = prev[last.e2])
        /\ last.e1 = last.e2 => map = prev

\* C8 witness: the asymmetric swap has happened: an unconstrained e1 has moved
\* onto the different Key of a narrowed e2 that could not take e1's Key.
C8_Witness ==
    /\ Acted("swap")
    /\ last.e1 \notin DOMAIN cons.narrowed
    /\ last.e2 \in DOMAIN cons.narrowed
    /\ ~Contains(cons.narrowed[last.e2], prev[last.e1])
    /\ prev[last.e1] # prev[last.e2]
    /\ map[last.e1] = prev[last.e2]
    /\ map[last.e2] = prev[last.e2]

\* The opposite Key of the pair (k1, k2) of the last full key swap.
Opposite(k) == IF k = prev[last.e1] THEN last.key ELSE prev[last.e1]

\* C9 (SpecMutate): the full key swap relocates exactly the Elements that are
\* not fixed, sit on k1 or k2 and are allowed the opposite Key, each onto the
\* opposite Key; the drawn Element ends on k2; k2 = k1 changes nothing.
C9_FullKeySwapMovesGroup ==
    Acted("full") =>
        /\ map = [e \in Elements(cons) |->
                    IF /\ e \notin cons.fixed
                       /\ prev[e] \in {prev[last.e1], last.key}
                       /\ Contains(Destinations(cons, e), Opposite(prev[e]))
                    THEN Opposite(prev[e]) ELSE prev[e]]
        /\ map[last.e1] = last.key
        /\ last.key = prev[last.e1] => map = prev

\* C9 witness: a full key swap between two different Keys has moved another
\* Element along with the drawn one and left a third, which sat on k2 and is
\* not allowed k1, in place.
C9_Witness ==
    /\ Acted("full")
    /\ last.key # prev[last.e1]
    /\ \E x \in Elements(cons) \ {last.e1}, y \in Movable(cons) \ {last.e1} :
        /\ prev[x] = prev[last.e1] /\ map[x] = last.key
        /\ prev[y] = last.key /\ map[y] = last.key

\* The rules in the order the claim gives: by-element, by-index,
\* by-element-and-index.
InOrder(r) ==
    r.constraints.elements \o r.constraints.indices \o r.constraints.element_indices

\* The Elements a rule resolves to, as a set.
ResolvesTo(r, rule) ==
    LET elems == ResolveElements(r, rule)
    IN  IF elems.status = "ok" THEN {elems.value[i] : i \in 1 .. Len(elems.value)} ELSE {}

\* The positions of the rules with `keys` that resolve to Element e.
Narrowing(r, e) ==
    {i \in 1 .. Len(InOrder(r)) :
        IsSome(InOrder(r)[i].keys) /\ e \in ResolvesTo(r, InOrder(r)[i])}

Max(S) == CHOOSE x \in S : \A y \in S : y <= x

\* The key list of a rule, resolved name by name in the rule's order.
KeyList(r, rule) ==
    [j \in 1 .. Len(Unwrap(rule.keys)) |-> r.key_repr[Unwrap(rule.keys)[j]]]

\* C10 (SpecNew): after a successful compile narrowed[e] is the non-empty
\* resolved key list of the last rule with `keys` that resolves to e, and a
\* rule without `keys` that resolves to e puts e in `fixed`.
C10_LastRuleWins ==
    result.status = "ok" =>
        \A e \in Elements(result.value) :
            /\ Narrowing(rep, e) # {} =>
                /\ e \in DOMAIN result.value.narrowed
                /\ result.value.narrowed[e] =
                       KeyList(rep, InOrder(rep)[Max(Narrowing(rep, e))])
                /\ Len(result.value.narrowed[e]) > 0
            /\ \A i \in 1 .. Len(InOrder(rep)) :
                (~IsSome(InOrder(rep)[i].keys) /\ e \in ResolvesTo(rep, InOrder(rep)[i]))
                    => e \in result.value.fixed

\* C10 witness: a compile has succeeded on a by-element rule and a later
\* by-element-and-index rule that resolve to one Element with different key
\* lists.
C10_Witness ==
    /\ result.status = "ok"
    /\ Len(rep.constraints.elements) = 1
    /\ Len(rep.constraints.element_indices) = 1
    /\ \E e \in Elements(result.value) :
        /\ Narrowing(rep, e) = {1, 2}
        /\ InOrder(rep)[1].keys # InOrder(rep)[2].keys

====
